---- MODULE Spec2Model ----
(***************************************************************************)
(* Model of the path-containment layer and the request handlers of         *)
(* files.py (SimpleFileBrowserHandler).                                    *)
(*                                                                         *)
(* A character is a one-character string, a name or a client string is a   *)
(* sequence of characters, an absolute filesystem path is a sequence of    *)
(* names (the empty sequence is "/").  The filesystem is a function from   *)
(* the absolute paths that exist to their nodes.                           *)
(***************************************************************************)
EXTENDS Integers, Sequences, FiniteSets, TLC

VARIABLES
    fs,        \* the filesystem: absolute path -> node
    auth,      \* server.auth_password ("" when no --auth was given)
    resp,      \* the request handled last and the response sent for it
    pre,       \* the filesystem as the last request found it
    written,   \* the locations whose node the last request changed
    reqs,      \* number of requests handled so far
    wk,        \* the delete workers of the concurrent specification
    vq,        \* resolver specification: the virtual path under test
    vres       \* resolver specification: the outcome of translate_path_safe

vars == <<fs, pre, auth, resp, written, reqs, wk, vq, vres>>

----------------------------------------------------------------------------
(* Sequences *)

IsPrefix(s, t) == Len(s) <= Len(t) /\ SubSeq(t, 1, Len(s)) = s

Last(s) == s[Len(s)]

Front(s) == SubSeq(s, 1, Len(s) - 1)

RECURSIVE Flatten(_)
Flatten(ss) == IF ss = <<>> THEN <<>> ELSE Head(ss) \o Flatten(Tail(ss))

----------------------------------------------------------------------------
(* Characters and names *)

SLASH == "/"
DOT == "."
PCT == "%"
NUL == "NUL"
CR == "CR"
LF == "LF"
UNKNOWN == "?"

DOTDOT == <<DOT, DOT>>

HexDigits == {"0", "1", "2", "3", "4", "5", "6", "7", "8", "9",
              "a", "b", "c", "d", "e", "f", "A", "B", "C", "D", "E", "F"}

\* The byte a pair of hex digits stands for, for the bytes the model tells apart.
HexToByte(h1, h2) ==
    CASE h1 = "2" /\ h2 \in {"e", "E"} -> DOT
      [] h1 = "2" /\ h2 \in {"f", "F"} -> SLASH
      [] h1 = "2" /\ h2 = "5" -> PCT
      [] h1 = "0" /\ h2 = "0" -> NUL
      [] h1 = "0" /\ h2 \in {"a", "A"} -> LF
      [] h1 = "0" /\ h2 \in {"d", "D"} -> CR
      [] h1 = "6" /\ h2 = "1" -> "a"
      [] OTHER -> UNKNOWN

\* urllib.parse.unquote: one left-to-right pass; "%" followed by two hex digits
\* becomes the byte, any other "%" stays.
RECURSIVE unquote(_)
unquote(s) ==
    IF s = <<>> THEN <<>>
    ELSE IF Head(s) = PCT /\ Len(s) >= 3 /\ s[2] \in HexDigits /\ s[3] \in HexDigits
         THEN <<HexToByte(s[2], s[3])>> \o unquote(SubSeq(s, 4, Len(s)))
         ELSE <<Head(s)>> \o unquote(Tail(s))

\* A strip of one leading "/" only, as q[1:] would do.
lstrip_one(s) == IF s # <<>> /\ Head(s) = SLASH THEN Tail(s) ELSE s

\* str.lstrip('/')
RECURSIVE lstrip(_)
lstrip(s) == IF s # <<>> /\ Head(s) = SLASH THEN lstrip(Tail(s)) ELSE s

\* The "/"-separated pieces of a string, empty pieces included.
RECURSIVE SplitSlash(_, _)
SplitSlash(s, cur) ==
    IF s = <<>> THEN <<cur>>
    ELSE IF Head(s) = SLASH THEN <<cur>> \o SplitSlash(Tail(s), <<>>)
         ELSE SplitSlash(Tail(s), Append(cur, Head(s)))

\* pathlib's parsing of a relative string: empty and "." pieces are dropped,
\* ".." pieces are kept.
PathParts(s) == SelectSeq(SplitSlash(s, <<>>), LAMBDA n : n # <<>> /\ n # <<DOT>>)

\* base / s for a string s: an s that starts with "/" replaces base.
JoinPath(base, s) ==
    IF s # <<>> /\ Head(s) = SLASH THEN PathParts(lstrip(s)) ELSE base \o PathParts(s)

\* str(path)
RECURSIVE PathStr(_)
PathStr(p) == IF p = <<>> THEN <<>> ELSE <<SLASH>> \o Head(p) \o PathStr(Tail(p))

----------------------------------------------------------------------------
(* The filesystem *)

Dir == [kind |-> "dir", data |-> <<>>, to |-> <<>>, mode |-> "755"]
File(c) == [kind |-> "file", data |-> c, to |-> <<>>, mode |-> "644"]
Link(t) == [kind |-> "link", data |-> <<>>, to |-> t, mode |-> "777"]

nR == <<"r">>
nRX == <<"r", "x">>
nO == <<"o">>
nA == <<"a">>
nB == <<"b">>
nD == <<"d">>
nE == <<"e">>
nF == <<"F">>
nJ == <<"j">>
nK == <<"k">>
nL == <<"l">>
nN == <<"n">>
nS == <<"s">>
nZ == <<"z">>

\* server.root_path: Path(root).resolve(), fixed at start.
root_path == <<nR>>

\* The tree at start: Root /r with two files, a directory tree, a link to a
\* directory outside Root, a link to a directory inside Root and a link to a file
\* outside Root; beside Root, a directory /o and a directory /rx whose
\* string begins with Root's string.
FS0 ==
    (<<>> :> Dir) @@
    (<<nR>> :> Dir) @@
    (<<nR, nA>> :> File(<<"A">>)) @@
    (<<nR, nB>> :> File(<<"B">>)) @@
    (<<nR, nD>> :> Dir) @@
    (<<nR, nD, nF>> :> File(<<"F">>)) @@
    (<<nR, nD, nE>> :> Dir) @@
    (<<nR, nL>> :> Link(<<nO>>)) @@
    (<<nR, nK>> :> Link(<<nR, nD, nE>>)) @@
    (<<nR, nJ>> :> Link(<<nO, nS>>)) @@
    (<<nO>> :> Dir) @@
    (<<nO, nS>> :> File(<<"S">>)) @@
    (<<nRX>> :> Dir)

Exists(f, p) == p \in DOMAIN f
IsLink(f, p) == Exists(f, p) /\ f[p].kind = "link"

\* Depth of symlink following after which resolution reports a loop.
MaxLinkHops == 4

\* os.path.realpath (strict=False), as Path.resolve() runs it: walk the parts
\* from "/", ".." drops the last part of what is resolved so far, a part that is
\* a symlink is replaced by its (absolute) target, any other part is appended
\* whether it exists or not.  <<"LOOP">> stands for the RuntimeError of a
\* symlink loop.
RECURSIVE JoinRealPath(_, _, _, _)
JoinRealPath(f, cur, rest, hops) ==
    IF rest = <<>> THEN cur
    ELSE LET name == Head(rest)
             new == Append(cur, name)
         IN  IF name = DOTDOT
                 THEN JoinRealPath(f, IF cur = <<>> THEN <<>> ELSE Front(cur), Tail(rest), hops)
             ELSE IF IsLink(f, new)
                 THEN IF hops = 0 THEN <<"LOOP">>
                      ELSE JoinRealPath(f, <<>>, f[new].to \o Tail(rest), hops - 1)
             ELSE JoinRealPath(f, new, Tail(rest), hops)

resolve(f, parts) == JoinRealPath(f, <<>>, parts, MaxLinkHops)

\* os.path.normpath: the same walk that never looks at the filesystem.
RECURSIVE NormPath(_, _)
NormPath(cur, rest) ==
    IF rest = <<>> THEN cur
    ELSE IF Head(rest) = DOTDOT
         THEN NormPath(IF cur = <<>> THEN <<>> ELSE Front(cur), Tail(rest))
         ELSE NormPath(Append(cur, Head(rest)), Tail(rest))

\* A containment test on the strings instead of the parts.
StringPrefixOk(p, rp) == IsPrefix(PathStr(rp), PathStr(p))

\* PurePath.relative_to(rp) succeeds: rp's parts are the leading parts of p.
relative_to_ok(p, rp) == IsPrefix(rp, p)

Ok(p) == [ok |-> TRUE, path |-> p, err |-> ""]
Raise(e) == [ok |-> FALSE, path |-> <<>>, err |-> e]

\* translate_path_safe with the join normalised as text only (os.path.normpath),
\* the symlinks on the way not followed.
translate_path_lexical(f, qpath) ==
    LET q0 == IF qpath # <<>> /\ Head(qpath) = SLASH THEN qpath ELSE <<SLASH>> \o qpath
        target == NormPath(<<>>, root_path \o PathParts(lstrip(unquote(q0))))
    IN  IF relative_to_ok(target, root_path) THEN Ok(target) ELSE Raise("PermissionError")

\* SimpleFileBrowserHandler.translate_path_safe
translate_path_safe(f, qpath) ==
    LET q0 == IF qpath # <<>> /\ Head(qpath) = SLASH THEN qpath ELSE <<SLASH>> \o qpath
        q == unquote(q0)
        rel == lstrip(q)
    IN  IF NUL \in {rel[i] : i \in DOMAIN rel} THEN Raise("ValueError")
        ELSE LET target == resolve(f, JoinPath(root_path, rel))
             IN  IF target = <<"LOOP">> THEN Raise("RuntimeError")
                 ELSE IF relative_to_ok(target, root_path) THEN Ok(target)
                 ELSE Raise("PermissionError")

UnderRoot(p) == IsPrefix(root_path, p)

----------------------------------------------------------------------------
(* Filesystem calls.  Each returns [ok, fs, err, at]: whether the call        *)
(* succeeded, the tree after it, the exception raised, the location acted on.*)

IsDir(f, p) == Exists(f, p) /\ f[p].kind = "dir"
IsFile(f, p) == Exists(f, p) /\ f[p].kind = "file"

Children(f, d) == { p \in DOMAIN f : Len(p) = Len(d) + 1 /\ IsPrefix(d, p) }
Subtree(f, p) == { q \in DOMAIN f : IsPrefix(p, q) }

Restrict(f, S) == [ q \in S |-> f[q] ]

RemoveTree(f, p) == Restrict(f, DOMAIN f \ Subtree(f, p))

\* The tree with the subtree at src re-rooted at dst (what was at dst is gone).
MoveTree(f, src, dst) ==
    LET moved == Subtree(f, src)
        kept == (DOMAIN f \ Subtree(f, dst)) \ moved
        newkeys == { dst \o SubSeq(q, Len(src) + 1, Len(q)) : q \in moved }
    IN  [ q \in kept \cup newkeys |->
            IF q \in newkeys THEN f[src \o SubSeq(q, Len(dst) + 1, Len(q))] ELSE f[q] ]

SysOk(f, at) == [ok |-> TRUE, fs |-> f, err |-> "", at |-> at]
SysErr(f, e) == [ok |-> FALSE, fs |-> f, err |-> e, at |-> <<>>]

\* The kernel's walk to the directory that holds the last part of a path:
\* every part before the last must exist and be a directory, symlinks on the
\* way are followed, the last part is not.  [err, dir, name].
RECURSIVE WalkParent(_, _, _, _)
WalkParent(f, cur, rest, hops) ==
    IF rest = <<>> THEN [err |-> "EBUSY", dir |-> <<>>, name |-> <<>>]
    ELSE LET name == Head(rest)
             new == Append(cur, name)
         IN  IF Len(rest) = 1
                 THEN IF name = DOTDOT
                          THEN [err |-> "EDOTDOT", dir |-> cur, name |-> name]
                          ELSE [err |-> "", dir |-> cur, name |-> name]
             ELSE IF name = DOTDOT
                 THEN WalkParent(f, IF cur = <<>> THEN <<>> ELSE Front(cur), Tail(rest), hops)
             ELSE IF ~Exists(f, new)
                 THEN [err |-> "FileNotFoundError", dir |-> <<>>, name |-> <<>>]
             ELSE IF f[new].kind = "link"
                 THEN IF hops = 0 THEN [err |-> "ELOOP", dir |-> <<>>, name |-> <<>>]
                      ELSE WalkParent(f, <<>>, f[new].to \o Tail(rest), hops - 1)
             ELSE IF f[new].kind = "dir"
                 THEN WalkParent(f, new, Tail(rest), hops)
             ELSE [err |-> "NotADirectoryError", dir |-> <<>>, name |-> <<>>]

\* os.mkdir(path)
os_mkdir(f, path) ==
    LET w == WalkParent(f, <<>>, path, MaxLinkHops)
        at == Append(w.dir, w.name)
    IN  IF w.err \in {"EBUSY", "EDOTDOT"} THEN SysErr(f, "FileExistsError")
        ELSE IF w.err # "" THEN SysErr(f, w.err)
        ELSE IF Exists(f, at) THEN SysErr(f, "FileExistsError")
        ELSE SysOk((at :> Dir) @@ f, at)

\* os.rename(src, dst) on POSIX: an existing file, link or empty directory at
\* dst is replaced silently.
os_rename(f, src, dst) ==
    LET w == WalkParent(f, <<>>, dst, MaxLinkHops)
        at == Append(w.dir, w.name)
    IN  IF ~Exists(f, src) THEN SysErr(f, "FileNotFoundError")
        ELSE IF w.err \in {"EBUSY", "EDOTDOT"} THEN SysErr(f, "OSError")
        ELSE IF w.err # "" THEN SysErr(f, w.err)
        ELSE IF at = src THEN SysOk(f, at)
        ELSE IF IsDir(f, src) /\ IsPrefix(src, at) THEN SysErr(f, "OSError")
        ELSE IF IsDir(f, at) /\ ~IsDir(f, src) THEN SysErr(f, "IsADirectoryError")
        ELSE IF IsDir(f, at) /\ Children(f, at) # {} THEN SysErr(f, "OSError")
        ELSE IF Exists(f, at) /\ ~IsDir(f, at) /\ IsDir(f, src)
            THEN SysErr(f, "NotADirectoryError")
        ELSE SysOk(MoveTree(f, src, at), at)

\* open(path, 'w' or 'wb') followed by the writes and the close: symlinks are
\* followed to the end, the file is created or truncated and filled.
RECURSIVE open_write(_, _, _, _)
open_write(f, path, content, hops) ==
    LET w == WalkParent(f, <<>>, path, MaxLinkHops)
        at == Append(w.dir, w.name)
    IN  IF w.err \in {"EBUSY", "EDOTDOT"} THEN SysErr(f, "IsADirectoryError")
        ELSE IF w.err # "" THEN SysErr(f, w.err)
        ELSE IF IsLink(f, at)
            THEN IF hops = 0 THEN SysErr(f, "OSError")
                 ELSE open_write(f, f[at].to, content, hops - 1)
        ELSE IF IsDir(f, at) THEN SysErr(f, "IsADirectoryError")
        ELSE SysOk((at :> File(content)) @@ f, at)

\* Path.unlink()
os_unlink(f, path) ==
    IF ~Exists(f, path)
        THEN SysErr(f, IF \E i \in 1..(Len(path) - 1) :
                              LET a == SubSeq(path, 1, i)
                              IN  Exists(f, a) /\ f[a].kind # "dir"
                       THEN "NotADirectoryError" ELSE "FileNotFoundError")
    ELSE IF IsDir(f, path) THEN SysErr(f, "IsADirectoryError")
    ELSE SysOk(RemoveTree(f, path), path)

\* A removal of the directory entry alone, what lies below it left behind.
rmdir_only(f, path) ==
    IF ~IsDir(f, path) THEN SysErr(f, "FileNotFoundError")
    ELSE SysOk(Restrict(f, DOMAIN f \ {path}), path)

\* shutil.rmtree(path) run to its end with nothing else running.
shutil_rmtree(f, path) ==
    IF ~IsDir(f, path) THEN SysErr(f, "FileNotFoundError")
    ELSE SysOk(RemoveTree(f, path), path)

\* os.stat(p) succeeds: p, with every symlink followed, exists.
StatOk(f, p) ==
    LET t == resolve(f, p) IN t # <<"LOOP">> /\ Exists(f, t)

\* os.path.basename of a canonical path
Basename(p) == IF p = <<>> THEN <<>> ELSE Last(p)

\* shutil.move(src, dst) with both on one device: a destination that is a
\* directory receives src under src's base name, refusing an entry of that name
\* already there; the move itself is os.rename, and the copy that shutil falls
\* back to when os.rename fails fails in turn, changing nothing.
shutil_move(f, src, dst) ==
    IF IsDir(f, dst)
        THEN IF src = dst THEN os_rename(f, src, dst)
             ELSE LET real_dst == Append(dst, Basename(src))
                  IN  IF StatOk(f, real_dst) THEN SysErr(f, "shutil.Error")
                      ELSE LET r == os_rename(f, src, real_dst)
                           IN  IF r.ok THEN r
                               ELSE IF IsDir(f, src) /\ IsPrefix(src, dst)
                                   THEN SysErr(f, "shutil.Error")
                               ELSE r
    ELSE LET r == os_rename(f, src, dst)
         IN  IF r.ok THEN r
             ELSE IF IsDir(f, src) /\ Exists(f, dst) THEN SysErr(f, "FileExistsError")
             ELSE r

\* os.chmod(path, mode)
os_chmod(f, path, mode) ==
    IF ~Exists(f, path) THEN SysErr(f, "FileNotFoundError")
    ELSE SysOk([f EXCEPT ![path].mode = mode], path)


----------------------------------------------------------------------------
(* Authentication *)

NoPassword == <<>>
NoHeader == [scheme |-> "", cred |-> <<>>]
Basic(c) == [scheme |-> "Basic", cred |-> c]

\* The Authorization headers a client sends: none, the password alone, user and
\* password, a wrong password, the password under another scheme, and a value
\* that does not split into scheme and credential.
Headers ==
    { NoHeader,
      Basic(<<"p", "w">>),
      Basic(<<"u", ":", "p", "w">>),
      Basic(<<"p", "w", ":", "x">>),
      [scheme |-> "Bearer", cred |-> <<"p", "w">>],
      [scheme |-> "Malformed", cred |-> <<>>] }

\* dec.split(':', 1)[-1]
RECURSIVE AfterFirstColon(_)
AfterFirstColon(c) ==
    IF \A i \in DOMAIN c : c[i] # ":" THEN c
    ELSE IF Head(c) = ":" THEN Tail(c)
    ELSE AfterFirstColon(Tail(c))

\* An authenticate that accepts every header that is present.
authenticate_any(pwd, header) == pwd = NoPassword \/ header # NoHeader

\* SimpleFileBrowserHandler.authenticate: TRUE lets the request through, FALSE
\* has sent the 401 response.
authenticate(pwd, header) ==
    IF pwd = NoPassword THEN TRUE
    ELSE IF header = NoHeader THEN FALSE
    ELSE IF header.scheme # "Basic" THEN FALSE
    ELSE header.cred = pwd \/ AfterFirstColon(header.cred) = pwd

----------------------------------------------------------------------------
(* Handlers.  Each returns [status, body, calls, perr, fs]: the status sent  *)
(* (0: the handler raised and sent nothing), the body, the locations it       *)
(* passed to filesystem calls, whether translate_path_safe raised             *)
(* PermissionError, and the tree it leaves.                                   *)

Result(status, body, calls, perr, f) ==
    [status |-> status, body |-> body, calls |-> calls, perr |-> perr, fs |-> f]

\* An error body: its message, and the absolute filenames the message spells
\* out.
ErrBody(e) == [kind |-> "error", text |-> e, names |-> {}]
OkBody == [kind |-> "ok"]

IsPerm(t) == ~t.ok /\ t.err = "PermissionError"

\* Path.parent
Parent(p) == IF p = <<>> THEN <<>> ELSE Front(p)

\* Path(s).name: the last part, "" when there is none.
PathName(s) == LET ps == PathParts(s) IN IF ps = <<>> THEN <<>> ELSE Last(ps)

\* safe_name = Path(part.filename).name
safe_name(filename) == PathName(filename)

\* Character codes, for sorting.
CharOrder ==
    << "NUL", "LF", "CR", "%", ".", "/", "0", "1", "2", "3", "4", "5", "6", "7", "8", "9", ":", "?",
       "A", "B", "C", "D", "E", "F", "S", "U", "a", "b", "c", "d", "e", "f", "j", "k",
       "l", "m", "n", "o", "p", "r", "s", "u", "v", "w", "x", "z" >>

Code(c) == CHOOSE i \in DOMAIN CharOrder : CharOrder[i] = c

\* str.lower() on one character
Lower(c) ==
    CASE c = "A" -> "a" [] c = "B" -> "b" [] c = "C" -> "c" [] c = "D" -> "d"
      [] c = "E" -> "e" [] c = "F" -> "f" [] c = "S" -> "s" [] c = "U" -> "u"
      [] OTHER -> c

LowerStr(s) == [ i \in DOMAIN s |-> Lower(s[i]) ]

\* s <= t as Python compares strings
RECURSIVE StrLeq(_, _)
StrLeq(s, t) ==
    IF s = <<>> THEN TRUE
    ELSE IF t = <<>> THEN FALSE
    ELSE IF Head(s) = Head(t) THEN StrLeq(Tail(s), Tail(t))
    ELSE Code(Head(s)) < Code(Head(t))

\* sorted(names): by character codes, upper case before lower case.
RECURSIVE SortedByCode(_)
SortedByCode(S) ==
    IF S = {} THEN <<>>
    ELSE LET m == CHOOSE x \in S : \A y \in S : StrLeq(x, y)
         IN  <<m>> \o SortedByCode(S \ {m})

\* sorted(names, key=lambda s: s.lower())
RECURSIVE SortedByLower(_)
SortedByLower(S) ==
    IF S = {} THEN <<>>
    ELSE LET m == CHOOSE x \in S : \A y \in S : StrLeq(LowerStr(x), LowerStr(y))
         IN  <<m>> \o SortedByLower(S \ {m})

\* '/' + os.path.relpath(fp, root_path) for fp inside Root
RECURSIVE JoinSlash(_)
JoinSlash(p) ==
    IF p = <<>> THEN <<>>
    ELSE IF Len(p) = 1 THEN Head(p)
    ELSE Head(p) \o <<SLASH>> \o JoinSlash(Tail(p))

VirtualOf(fp) == <<SLASH>> \o JoinSlash(SubSeq(fp, Len(root_path) + 1, Len(fp)))

\* The entries of GET /api/list for the directory target: the children in
\* sorted order, those whose stat fails left out.
Entries(f, target) ==
    LET names == SortedByLower({ Last(c) : c \in Children(f, target) })
        ok == SelectSeq(names, LAMBDA n : StatOk(f, Append(target, n)))
    IN  [ i \in DOMAIN ok |->
            LET fp == Append(target, ok[i])
            IN  [name |-> ok[i], path |-> VirtualOf(fp), is_dir |-> IsDir(f, resolve(f, fp))] ]

\* GET /api/list
api_list(f, p) ==
    LET t == translate_path_safe(f, p)
    IN  IF IsPerm(t) THEN Result(403, ErrBody("forbidden"), {}, TRUE, f)
        ELSE IF ~t.ok THEN Result(0, ErrBody(t.err), {}, FALSE, f)
        ELSE IF ~IsDir(f, t.path) THEN Result(404, ErrBody("not found"), {t.path}, FALSE, f)
        ELSE Result(200, [kind |-> "list", root |-> root_path, files |-> Entries(f, t.path)],
                    {t.path} \cup Children(f, t.path), FALSE, f)

\* The files os.walk(target) hands to zf.write: every entry below target that
\* is not a directory (a symlink to a directory is not descended into).
WalkFiles(f, target) ==
    { q \in Subtree(f, target) : q # target /\ ~IsDir(f, resolve(f, q)) }

\* The archive of GET /api/download for a directory: the entries zf.write
\* could read, named relative to target, holding what the path leads to.
ZipOf(f, target) ==
    { [arcname |-> JoinSlash(SubSeq(q, Len(target) + 1, Len(q))), data |-> f[resolve(f, q)].data] :
        q \in { w \in WalkFiles(f, target) : StatOk(f, w) } }

\* GET /api/download
api_download(f, p) ==
    LET t == translate_path_safe(f, p)
    IN  IF IsPerm(t) THEN Result(403, ErrBody("forbidden"), {}, TRUE, f)
        ELSE IF ~t.ok THEN Result(0, ErrBody(t.err), {}, FALSE, f)
        ELSE IF ~Exists(f, t.path) THEN Result(404, ErrBody("not found"), {t.path}, FALSE, f)
        ELSE IF IsDir(f, t.path)
            THEN Result(200, [kind |-> "zip", entries |-> ZipOf(f, t.path)],
                        Subtree(f, t.path), FALSE, f)
        ELSE Result(200, [kind |-> "bytes", data |-> f[t.path].data], {t.path}, FALSE, f)

\* mimetypes.guess_type by the name's extension: a name without an extension
\* has no type, the one extension of the model (".t") is text.
guess_type(name) ==
    IF Len(name) >= 3 /\ name[Len(name) - 1] = DOT /\ Last(name) = "t"
        THEN "text/plain" ELSE "application/octet-stream"

\* GET /api/preview
api_preview(f, p) ==
    LET t == translate_path_safe(f, p)
    IN  IF IsPerm(t) THEN Result(403, ErrBody("forbidden"), {}, TRUE, f)
        ELSE IF ~t.ok THEN Result(0, ErrBody(t.err), {}, FALSE, f)
        ELSE IF ~Exists(f, t.path) THEN Result(404, ErrBody("not found"), {t.path}, FALSE, f)
        ELSE IF IsDir(f, t.path)
            THEN Result(200, [kind |-> "text", data |-> "Directory"], {t.path}, FALSE, f)
        ELSE IF guess_type(Last(t.path)) = "text/plain"
            THEN Result(200, [kind |-> "bytes", data |-> f[t.path].data], {t.path}, FALSE, f)
        ELSE Result(200, [kind |-> "text", data |-> "No preview"], {t.path}, FALSE, f)


\* os.linesep on POSIX
linesep == <<LF>>

\* What f.write(s) puts in a file opened in text mode with the default
\* newline: every "\n" written as os.linesep.
RECURSIVE write_newlines(_)
write_newlines(s) ==
    IF s = <<>> THEN <<>>
    ELSE (IF Head(s) = LF THEN linesep ELSE <<Head(s)>>) \o write_newlines(Tail(s))

\* What f.read() returns of a file opened in text mode with the default
\* newline: "\r\n" and a lone "\r" are each read as "\n".
RECURSIVE read_newlines(_)
read_newlines(s) ==
    IF s = <<>> THEN <<>>
    ELSE IF Head(s) = CR
        THEN IF Len(s) >= 2 /\ s[2] = LF THEN <<LF>> \o read_newlines(Tail(Tail(s)))
             ELSE <<LF>> \o read_newlines(Tail(s))
    ELSE <<Head(s)>> \o read_newlines(Tail(s))

\* GET /api/edit: every exception, PermissionError included, ends as 500.
api_edit(f, p) ==
    LET t == translate_path_safe(f, p)
    IN  IF ~t.ok THEN Result(500, ErrBody("internal"), {}, IsPerm(t), f)
        ELSE IF ~Exists(f, t.path) \/ IsDir(f, t.path)
            THEN Result(404, ErrBody("not found"), {t.path}, FALSE, f)
        ELSE Result(200, [kind |-> "bytes", data |-> read_newlines(f[t.path].data)], {t.path},
                    FALSE, f)

\* GET /api/permissions
api_permissions_get(f, p) ==
    LET t == translate_path_safe(f, p)
    IN  IF ~t.ok THEN Result(500, ErrBody("internal"), {}, IsPerm(t), f)
        ELSE IF ~Exists(f, t.path) THEN Result(404, ErrBody("not found"), {t.path}, FALSE, f)
        ELSE Result(200, [kind |-> "perm", octal |-> f[t.path].mode], {t.path}, FALSE, f)

\* The upload loop over the parts (filename, content) of the form: each part
\* with a filename is written to target_folder / safe_name, a part whose write
\* raises is skipped.  [fs, saved, calls].
RECURSIVE SaveParts(_, _, _)
SaveParts(f, folder, parts) ==
    IF parts = <<>> THEN [fs |-> f, saved |-> 0, calls |-> {}]
    ELSE LET part == Head(parts)
             dest == folder \o PathParts(safe_name(part.filename))
             w == open_write(f, dest, part.data, MaxLinkHops)
             rest == SaveParts(w.fs, folder, Tail(parts))
         IN  IF part.filename = <<>> THEN SaveParts(f, folder, Tail(parts))
             ELSE [fs |-> rest.fs,
                   saved |-> rest.saved + (IF w.ok THEN 1 ELSE 0),
                   calls |-> rest.calls \cup {dest}]

\* POST /api/upload: a destination that translate_path_safe refuses is
\* replaced by Root.
api_upload(f, p, parts) ==
    LET t == translate_path_safe(f, p)
        target_folder == IF t.ok THEN t.path ELSE root_path
        r == SaveParts(f, target_folder, parts)
    IN  IF r.saved = 0
            THEN Result(400, ErrBody("no files uploaded"), r.calls, IsPerm(t), r.fs)
            ELSE Result(200, [kind |-> "saved", saved |-> r.saved], r.calls, IsPerm(t), r.fs)

\* str(e): the text of an exception that translate_path_safe raised names no
\* file; the text of one that a filesystem call raised spells out the absolute
\* filenames the call was given ("[Errno 2] No such file or directory: '/r/z'").
str_exc(e, calls) ==
    [kind |-> "error", text |-> e,
     names |-> IF e \in {"PermissionError", "ValueError", "RuntimeError"} THEN {} ELSE calls]

\* The 400 response of a mutation whose try block raised e.
Failed(e, calls, perr, f) == Result(400, str_exc(e, calls), calls, perr, f)

\* POST /api/mkdir
api_mkdir(f, p, name) ==
    LET t == translate_path_safe(f, p)
        dest == JoinPath(t.path, name)
        r == os_mkdir(f, dest)
    IN  IF ~t.ok THEN Failed(t.err, {}, IsPerm(t), f)
        ELSE IF ~r.ok THEN Failed(r.err, {dest}, FALSE, f)
        ELSE Result(200, OkBody, {dest}, FALSE, r.fs)

\* POST /api/delete
api_delete(f, p) ==
    LET t == translate_path_safe(f, p)
        r == IF IsDir(f, t.path) THEN shutil_rmtree(f, t.path) ELSE os_unlink(f, t.path)
    IN  IF ~t.ok THEN Failed(t.err, {}, IsPerm(t), f)
        ELSE IF ~r.ok THEN Failed(r.err, {t.path}, FALSE, f)
        ELSE Result(200, OkBody, {t.path}, FALSE, r.fs)

\* POST /api/rename
api_rename(f, p, new) ==
    LET t == translate_path_safe(f, p)
        dest == JoinPath(Parent(t.path), new)
        r == os_rename(f, t.path, dest)
    IN  IF ~t.ok THEN Failed(t.err, {}, IsPerm(t), f)
        ELSE IF ~r.ok THEN Failed(r.err, {t.path, dest}, FALSE, f)
        ELSE Result(200, OkBody, {t.path, dest}, FALSE, r.fs)

\* POST /api/move
api_move(f, source, target) ==
    LET s == translate_path_safe(f, source)
        t == translate_path_safe(f, target)
        r == shutil_move(f, s.path, t.path)
    IN  IF ~s.ok THEN Failed(s.err, {}, IsPerm(s), f)
        ELSE IF ~t.ok THEN Failed(t.err, {}, IsPerm(t), f)
        ELSE IF ~r.ok THEN Failed(r.err, {s.path, t.path}, FALSE, f)
        ELSE Result(200, OkBody, {s.path, t.path}, FALSE, r.fs)

\* POST /api/save
api_save(f, p, content) ==
    LET t == translate_path_safe(f, p)
        r == open_write(f, t.path, write_newlines(content), MaxLinkHops)
    IN  IF ~t.ok THEN Failed(t.err, {}, IsPerm(t), f)
        ELSE IF ~r.ok THEN Failed(r.err, {t.path}, FALSE, f)
        ELSE Result(200, OkBody, {t.path}, FALSE, r.fs)

\* POST /api/permissions, with no owner and no group given (no chown is made)
api_permissions_post(f, p, mode) ==
    LET t == translate_path_safe(f, p)
        r == os_chmod(f, t.path, mode)
    IN  IF ~t.ok THEN Failed(t.err, {}, IsPerm(t), f)
        ELSE IF ~r.ok THEN Failed(r.err, {t.path}, FALSE, f)
        ELSE Result(200, OkBody, {t.path}, FALSE, r.fs)

\* A loop over the sources that goes on with the next source after a failure
\* and reports the last failure at the end.
RECURSIVE MoveEachContinue(_, _, _)
MoveEachContinue(f, target_path, sources) ==
    IF sources = <<>> THEN [fs |-> f, err |-> "", perr |-> FALSE, calls |-> {}]
    ELSE LET s == translate_path_safe(f, Head(sources))
             dest_path == Append(target_path, Basename(s.path))
             r == shutil_move(f, s.path, dest_path)
             rest == MoveEachContinue(IF s.ok THEN r.fs ELSE f, target_path, Tail(sources))
         IN  IF ~s.ok
                 THEN [rest EXCEPT !.err = IF @ = "" THEN s.err ELSE @,
                                   !.perr = IF rest.err = "" THEN IsPerm(s) ELSE @]
             ELSE IF ~r.ok
                 THEN [rest EXCEPT !.err = IF @ = "" THEN r.err ELSE @,
                                   !.calls = @ \cup {s.path, dest_path}]
             ELSE [rest EXCEPT !.calls = @ \cup {s.path, dest_path}]

\* The loop of move-multiple over the sources, in list order; the first
\* exception ends it, the moves made before it stay.  [fs, err, perr, calls].
RECURSIVE MoveEach(_, _, _)
MoveEach(f, target_path, sources) ==
    IF sources = <<>> THEN [fs |-> f, err |-> "", perr |-> FALSE, calls |-> {}]
    ELSE LET s == translate_path_safe(f, Head(sources))
             dest_path == Append(target_path, Basename(s.path))
             r == shutil_move(f, s.path, dest_path)
             rest == MoveEach(r.fs, target_path, Tail(sources))
         IN  IF ~s.ok THEN [fs |-> f, err |-> s.err, perr |-> IsPerm(s), calls |-> {}]
             ELSE IF ~r.ok
                 THEN [fs |-> f, err |-> r.err, perr |-> FALSE, calls |-> {s.path, dest_path}]
             ELSE [rest EXCEPT !.calls = @ \cup {s.path, dest_path}]

\* POST /api/move-multiple
api_move_multiple(f, sources, target) ==
    LET t == translate_path_safe(f, target)
        r == MoveEach(f, t.path, sources)
    IN  IF ~t.ok THEN Failed(t.err, {}, IsPerm(t), f)
        ELSE IF r.err # "" THEN Failed(r.err, r.calls, r.perr, r.fs)
        ELSE Result(200, OkBody, r.calls, FALSE, r.fs)

----------------------------------------------------------------------------
(* Requests handled one after the other *)

Pending == Raise("pending")

NoResp ==
    [op |-> "none", header |-> NoHeader, path |-> <<>>, arg2 |-> <<>>, sources |-> <<>>,
     status |-> 0, body |-> OkBody, calls |-> {}, perr |-> FALSE]

InitCommon ==
    /\ fs = FS0
    /\ pre = FS0
    /\ resp = NoResp
    /\ written = {}
    /\ reqs = 0
    /\ wk = <<>>

\* Number of requests handled in a run.
MaxReqs == 2

\* Largest number of file parts in one upload.
MaxParts == 1

vRoot == <<>>
vSlash == <<SLASH>>
vA == <<"a">>
vB == <<"b">>
vD == <<"d">>
vJ == <<"j">>
vK == <<"k">>
vL == <<"l">>
vN == <<"n">>
vZ == <<"z">>
vUpO == <<DOT, DOT, SLASH, "o">>
vPct == <<PCT, "6", "1">>
vNul == <<"a", PCT, "0", "0">>
vCtl == <<"n", PCT, "0", "a">>
vUpOS == <<SLASH, DOT, DOT, SLASH, "o", SLASH, "s">>
vEncRX == <<PCT, "2", "e", PCT, "2", "e", SLASH, "r", "x">>
vEncOS == <<DOT, DOT, PCT, "2", "f", "o", SLASH, "s">>
vUpX == <<DOT, DOT, SLASH, "x">>
vAbsOX == <<SLASH, "o", SLASH, "x">>
vNM == <<"n", SLASH, "m">>
vEvil == <<DOT, DOT, SLASH, DOT, DOT, SLASH, "v">>
vDN == <<"d", SLASH, "n">>

\* With a password configured the model sends fewer arguments: what those runs
\* exercise is authenticate, which is over before any argument is read.
Few(small, all) == IF auth = NoPassword THEN all ELSE small

ReadPaths == Few({vA, vD}, {vSlash, vD, vA, vL, vEncOS, vZ, vNul, vCtl})
DeletePaths == Few({vA, vD}, {vA, vD, vK, vJ, vZ, vSlash, vEncRX, vNul})
RenamePaths == Few({vA, vD}, {vA, vD, vK, vRoot, vUpOS})
NewNames == Few({vN, vUpX}, {vN, vB, vUpX, vAbsOX, vDN})
MkdirPaths == {vRoot, vD, vUpO}
MkdirNames == Few({vN}, {vN, vB, vD, vUpX, vNM, vPct})
UploadPaths == {vSlash, vD, vUpO}
UploadNames == Few({vEvil}, {vEvil, vJ, DOTDOT})
UploadData == <<"U">>
MoveSources == {vA, vD, vUpOS}
MoveTargets == Few({vD}, {vD, vN, vB, vUpO})
MultiSources == Few({<<vA, vB>>}, {<<>>, <<vA, vB>>, <<vA, vEncOS, vB>>, <<vZ, vA>>, <<vD, vA>>, <<vA, vZ, vA>>})
MultiTargets == {vD, vUpO, vZ}
SavePaths == Few({vA}, {vA, vN, vD, vUpOS, vJ, vCtl})
SaveData == {<<"x", LF>>, <<"x", CR, LF>>}
PermPaths == {vA, vZ, vEncOS}
PermModes == {"600"}

UploadForms ==
    UNION { [1..n -> [filename : UploadNames, data : {UploadData}]] : n \in 1..MaxParts }

\* The headers the model sends: with no password configured the header is
\* never read, and none is sent.
HeadersSent == IF auth = NoPassword THEN {NoHeader} ELSE Headers

Request(op, header, path, arg2, sources) ==
    [op |-> op, header |-> header, path |-> path, arg2 |-> arg2, sources |-> sources]

\* The response is sent and the worker is done with the request.
Finish(rq, r) ==
    /\ resp' = [op |-> rq.op, header |-> rq.header, path |-> rq.path, arg2 |-> rq.arg2,
                sources |-> rq.sources, status |-> r.status, body |-> r.body,
                calls |-> r.calls, perr |-> r.perr]
    /\ fs' = r.fs
    /\ pre' = fs
    /\ written' = { q \in DOMAIN fs \cup DOMAIN r.fs :
                      q \notin DOMAIN fs \/ q \notin DOMAIN r.fs \/ fs[q] # r.fs[q] }
    /\ reqs' = reqs + 1
    /\ UNCHANGED <<auth, wk, vq, vres>>

\* do_AUTHHEAD: the 401 response of a request that authenticate refused.
Unauthorized == Result(401, ErrBody("unauthorized"), {}, FALSE, fs)

Ready == reqs < MaxReqs /\ wk = <<>> /\ vres = Pending

\* do_GET / do_POST return as soon as authenticate has refused the request:
\* nothing of the request but its method, path and header has been read.
Refuse(op, header) == Finish(Request(op, header, <<>>, <<>>, <<>>), Unauthorized)

GetList ==
    /\ Ready
    /\ \E h \in HeadersSent :
           IF authenticate(auth, h)
               THEN \E p \in ReadPaths :
                        Finish(Request("list", h, p, <<>>, <<>>), api_list(fs, p))
               ELSE Refuse("list", h)

GetDownload ==
    /\ Ready
    /\ \E h \in HeadersSent :
           IF authenticate(auth, h)
               THEN \E p \in ReadPaths :
                        Finish(Request("download", h, p, <<>>, <<>>), api_download(fs, p))
               ELSE Refuse("download", h)

GetPreview ==
    /\ Ready
    /\ \E h \in HeadersSent :
           IF authenticate(auth, h)
               THEN \E p \in ReadPaths :
                        Finish(Request("preview", h, p, <<>>, <<>>), api_preview(fs, p))
               ELSE Refuse("preview", h)

GetEdit ==
    /\ Ready
    /\ \E h \in HeadersSent :
           IF authenticate(auth, h)
               THEN \E p \in ReadPaths :
                        Finish(Request("edit", h, p, <<>>, <<>>), api_edit(fs, p))
               ELSE Refuse("edit", h)

GetPermissions ==
    /\ Ready
    /\ \E h \in HeadersSent :
           IF authenticate(auth, h)
               THEN \E p \in ReadPaths :
                        Finish(Request("permissions_get", h, p, <<>>, <<>>), api_permissions_get(fs, p))
               ELSE Refuse("permissions_get", h)

PostUpload ==
    /\ Ready
    /\ \E h \in HeadersSent :
           IF authenticate(auth, h)
               THEN \E p \in UploadPaths, form \in UploadForms :
                        Finish(Request("upload", h, p, <<>>, form), api_upload(fs, p, form))
               ELSE Refuse("upload", h)

PostMkdir ==
    /\ Ready
    /\ \E h \in HeadersSent :
           IF authenticate(auth, h)
               THEN \E p \in MkdirPaths, name \in MkdirNames :
                        Finish(Request("mkdir", h, p, name, <<>>), api_mkdir(fs, p, name))
               ELSE Refuse("mkdir", h)

PostDelete ==
    /\ Ready
    /\ \E h \in HeadersSent :
           IF authenticate(auth, h)
               THEN \E p \in DeletePaths :
                        Finish(Request("delete", h, p, <<>>, <<>>), api_delete(fs, p))
               ELSE Refuse("delete", h)

PostRename ==
    /\ Ready
    /\ \E h \in HeadersSent :
           IF authenticate(auth, h)
               THEN \E p \in RenamePaths, new \in NewNames :
                        Finish(Request("rename", h, p, new, <<>>), api_rename(fs, p, new))
               ELSE Refuse("rename", h)

PostMove ==
    /\ Ready
    /\ \E h \in HeadersSent :
           IF authenticate(auth, h)
               THEN \E s \in MoveSources, t \in MoveTargets :
                        Finish(Request("move", h, s, t, <<>>), api_move(fs, s, t))
               ELSE Refuse("move", h)

PostMoveMultiple ==
    /\ Ready
    /\ \E h \in HeadersSent :
           IF authenticate(auth, h)
               THEN \E ss \in MultiSources, t \in MultiTargets :
                        Finish(Request("move-multiple", h, <<>>, t, ss), api_move_multiple(fs, ss, t))
               ELSE Refuse("move-multiple", h)

PostSave ==
    /\ Ready
    /\ \E h \in HeadersSent :
           IF authenticate(auth, h)
               THEN \E p \in SavePaths, c \in SaveData :
                        Finish(Request("save", h, p, c, <<>>), api_save(fs, p, c))
               ELSE Refuse("save", h)

PostPermissions ==
    /\ Ready
    /\ \E h \in HeadersSent :
           IF authenticate(auth, h)
               THEN \E p \in PermPaths, m \in PermModes :
                        Finish(Request("permissions_post", h, p, <<>>, <<m>>), api_permissions_post(fs, p, m))
               ELSE Refuse("permissions_post", h)

\* Request bodies that are not what an endpoint expects: bytes that are not
\* JSON, a JSON value that is not an object ("[]"), and an object that lacks
\* the field the endpoint needs first ('name' for mkdir, 'path', 'source' or
\* 'target' for the others).
NotJson == "not_json"
NotObject == "not_object"
NoField == "no_field"
MalformedBodies == Few({NotJson, NoField}, {NotJson, NotObject, NoField})

\* The endpoints that read a JSON body.
JsonEndpoints ==
    {"mkdir", "delete", "rename", "move", "move-multiple", "save", "permissions_post"}

\* A JSON endpoint given such a body.  obj = json.loads(body) and the
\* obj.get(...) calls stand before the try block: a JSONDecodeError, or the
\* AttributeError of .get on a list, leaves do_POST and the connection is closed
\* with nothing sent.  A field that is missing is None: translate_path_safe(None)
\* raises AttributeError, base / None raises TypeError, both inside the try block.
api_malformed(f, endpoint, body) ==
    IF body \in {NotJson, NotObject} THEN Result(0, [kind |-> "none"], {}, FALSE, f)
    ELSE Failed(IF endpoint = "mkdir" THEN "TypeError" ELSE "AttributeError", {}, FALSE, f)

PostMalformed ==
    /\ Ready
    /\ \E h \in HeadersSent, e \in JsonEndpoints :
           IF authenticate(auth, h)
               THEN \E b \in MalformedBodies :
                        Finish(Request("malformed", h, <<>>, e, <<b>>), api_malformed(fs, e, b))
               ELSE Refuse(e, h)

----------------------------------------------------------------------------
(* The resolver on its own: every virtual path built from at most MaxTokens  *)
(* tokens is handed to translate_path_safe on the tree at start.             *)

MaxTokens == 4

Tokens ==
    { <<SLASH>>,
      <<DOT, DOT, SLASH>>,
      <<PCT, "2", "e", PCT, "2", "e", SLASH>>,
      <<DOT, DOT, PCT, "2", "f">>,
      <<"l", SLASH>>,
      <<"k", SLASH>>,
      <<"d", SLASH>>,
      <<"r", SLASH>>,
      <<"r", "x">>,
      <<"a">>,
      <<"o", SLASH>> }

VInputs == { Flatten(ts) : ts \in UNION { [1..n -> Tokens] : n \in 0..MaxTokens } }

InitResolve ==
    /\ InitCommon
    /\ auth = ""
    /\ vq \in VInputs
    /\ vres = Pending

Translate ==
    /\ vres = Pending
    /\ vres' = translate_path_safe(fs, vq)
    /\ UNCHANGED <<fs, pre, auth, resp, written, reqs, wk, vq>>

SpecResolve == InitResolve /\ [][Translate]_vars

\* The server started without --auth.
Init ==
    /\ InitCommon
    /\ auth = NoPassword
    /\ vq = <<>>
    /\ vres = Pending

\* The server started with --auth pw.
InitAuth ==
    /\ InitCommon
    /\ auth = <<"p", "w">>
    /\ vq = <<>>
    /\ vres = Pending

Next ==
    \/ GetList \/ GetDownload \/ GetPreview \/ GetEdit \/ GetPermissions
    \/ PostUpload \/ PostMkdir \/ PostDelete \/ PostRename \/ PostMove
    \/ PostMoveMultiple \/ PostSave \/ PostPermissions \/ PostMalformed

Spec == Init /\ [][Next]_vars

SpecAuth == InitAuth /\ [][Next]_vars

\* The parts translate_path_safe joins to Root for a virtual path.
PartsOf(v) == PathParts(lstrip(unquote(<<SLASH>> \o v)))

\* The canonical location of a virtual path on tree f.
Canon(f, v) == resolve(f, root_path \o PartsOf(v))

\* The walk of v on tree f meets a symlink that lies in Root and leads out of it.
ThroughOutLink(f, v) ==
    LET parts == PartsOf(v)
    IN  \E i \in 1..Len(parts) :
            LET at == Append(resolve(f, root_path \o SubSeq(parts, 1, i - 1)), parts[i])
            IN  /\ UnderRoot(at)
                /\ IsLink(f, at)
                /\ ~UnderRoot(resolve(f, f[at].to))

----------------------------------------------------------------------------
(* Two worker threads of the ThreadingHTTPServer, each handling one POST     *)
(* /api/delete of the same virtual path.  A step is one filesystem call.     *)

Workers == {1, 2}

ConcPaths == {vA, vD, vK}

Worker(pc, path, target, stack, status, err) ==
    [pc |-> pc, path |-> path, target |-> target, stack |-> stack, status |-> status,
     err |-> err]

\* What os.scandir reports of a directory: its entries with their types.
Scan(f, d) == { [path |-> c, is_dir |-> f[c].kind = "dir"] : c \in Children(f, d) }

InitDelete ==
    /\ fs = FS0
    /\ pre = FS0
    /\ resp = NoResp
    /\ written = {}
    /\ reqs = 0
    /\ auth = NoPassword
    /\ vq = <<>>
    /\ vres = Pending
    /\ \E p \in ConcPaths : wk = [w \in Workers |-> Worker("start", p, <<>>, <<>>, 0, "")]

Respond(w, status, err) == [wk EXCEPT ![w].pc = "done", ![w].status = status, ![w].err = err]

ConcFrame == UNCHANGED <<pre, auth, resp, written, reqs, vq, vres>>

\* target = self.translate_path_safe(p)
DelTranslate(w) ==
    /\ wk # <<>>
    /\ wk[w].pc = "start"
    /\ LET t == translate_path_safe(fs, wk[w].path)
       IN  wk' = IF t.ok THEN [wk EXCEPT ![w].pc = "is_dir", ![w].target = t.path]
                 ELSE Respond(w, 400, t.err)
    /\ UNCHANGED fs
    /\ ConcFrame

\* if target.is_dir():
DelIsDir(w) ==
    /\ wk # <<>>
    /\ wk[w].pc = "is_dir"
    /\ wk' = [wk EXCEPT ![w].pc = IF IsDir(fs, wk[w].target) THEN "rmtree" ELSE "unlink"]
    /\ UNCHANGED fs
    /\ ConcFrame

\* target.unlink(), then the response
DelUnlink(w) ==
    /\ wk # <<>>
    /\ wk[w].pc = "unlink"
    /\ LET r == os_unlink(fs, wk[w].target)
       IN  /\ fs' = r.fs
           /\ wk' = IF r.ok THEN Respond(w, 200, "") ELSE Respond(w, 400, r.err)
    /\ ConcFrame

\* shutil.rmtree(target) opens the directory and reads its entries
RmtreeOpen(w) ==
    /\ wk # <<>>
    /\ wk[w].pc = "rmtree"
    /\ wk' = IF IsDir(fs, wk[w].target)
                 THEN [wk EXCEPT ![w].pc = "rmloop",
                                 ![w].stack = <<[dir |-> wk[w].target,
                                                 left |-> Scan(fs, wk[w].target)]>>]
                 ELSE Respond(w, 400, "FileNotFoundError")
    /\ UNCHANGED fs
    /\ ConcFrame

\* shutil.rmtree takes one entry it read, in whatever order scandir gave them:
\* a directory is opened and read in turn, anything else is unlinked; an entry
\* that is gone raises.
RmtreeEntry(w) ==
    /\ wk # <<>>
    /\ wk[w].pc = "rmloop"
    /\ LET top == Last(wk[w].stack)
       IN  \E e \in top.left :
               LET below == [wk[w].stack EXCEPT ![Len(wk[w].stack)].left = top.left \ {e}]
               IN  IF e.is_dir
                       THEN /\ wk' = IF IsDir(fs, e.path)
                                         THEN [wk EXCEPT ![w].stack =
                                                   Append(below, [dir |-> e.path,
                                                                  left |-> Scan(fs, e.path)])]
                                         ELSE Respond(w, 400, "FileNotFoundError")
                            /\ UNCHANGED fs
                       ELSE LET r == os_unlink(fs, e.path)
                            IN  /\ fs' = r.fs
                                /\ wk' = IF r.ok THEN [wk EXCEPT ![w].stack = below]
                                         ELSE Respond(w, 400, r.err)
    /\ ConcFrame

\* os.rmdir of the directory whose entries are all dealt with; the rmdir of the
\* top directory ends rmtree and the response is sent.
RmtreeRmdir(w) ==
    /\ wk # <<>>
    /\ wk[w].pc = "rmloop"
    /\ LET top == Last(wk[w].stack)
       IN  /\ top.left = {}
           /\ IF IsDir(fs, top.dir) /\ Children(fs, top.dir) = {}
                  THEN /\ fs' = RemoveTree(fs, top.dir)
                       /\ wk' = IF Len(wk[w].stack) = 1 THEN Respond(w, 200, "")
                                ELSE [wk EXCEPT ![w].stack = Front(wk[w].stack)]
                  ELSE /\ fs' = fs
                       /\ wk' = Respond(w, 400, IF IsDir(fs, top.dir) THEN "OSError"
                                                ELSE "FileNotFoundError")
    /\ ConcFrame

NextDelete ==
    \E w \in Workers :
        \/ DelTranslate(w) \/ DelIsDir(w) \/ DelUnlink(w)
        \/ RmtreeOpen(w) \/ RmtreeEntry(w) \/ RmtreeRmdir(w)

SpecDelete == InitDelete /\ [][NextDelete]_vars

----------------------------------------------------------------------------
(* One worker thread handling a GET /api/list, a step for each filesystem     *)
(* call, while other threads handle whole delete requests in between.         *)

\* Number of deletes handled while the list is in progress.
MaxConcDeletes == 2

ListPaths == {vSlash, vD}

ListDelPaths == {vA, vD, vK, <<"d", SLASH, "F">>}

\* The lister: where it is, the path asked for, the directory listed, the
\* names os.listdir gave in sorted order, the index of the name at hand, the
\* entries built, the names whose stat raised, the status sent.
Lister(pc, path) ==
    [pc |-> pc, path |-> path, target |-> <<>>, names |-> <<>>, i |-> 1,
     entries |-> <<>>, skipped |-> {}, status |-> 0]

InitList ==
    /\ fs = FS0
    /\ pre = FS0
    /\ resp = NoResp
    /\ written = {}
    /\ reqs = 0
    /\ auth = NoPassword
    /\ vq = <<>>
    /\ vres = Pending
    /\ \E p \in ListPaths : wk = Lister("start", p)

ListFrame == UNCHANGED <<fs, pre, auth, resp, written, reqs, vq, vres>>

\* target = self.translate_path_safe(p), PermissionError answered 403
ListTranslate ==
    /\ wk.pc = "start"
    /\ LET t == translate_path_safe(fs, wk.path)
       IN  wk' = IF t.ok THEN [wk EXCEPT !.pc = "check", !.target = t.path]
                 ELSE [wk EXCEPT !.pc = "done", !.status = IF IsPerm(t) THEN 403 ELSE 0]
    /\ ListFrame

\* if not target.exists() or not target.is_dir(): 404
ListCheck ==
    /\ wk.pc = "check"
    /\ wk' = IF IsDir(fs, wk.target) THEN [wk EXCEPT !.pc = "listdir"]
             ELSE [wk EXCEPT !.pc = "done", !.status = 404]
    /\ ListFrame

\* sorted(os.listdir(target), key=...): a directory that is gone by now raises
\* FileNotFoundError, which only an except PermissionError stands against.
ListDir ==
    /\ wk.pc = "listdir"
    /\ wk' = IF IsDir(fs, wk.target)
                 THEN [wk EXCEPT !.pc = "stat",
                                 !.names = SortedByLower({ Last(c) : c \in Children(fs, wk.target) })]
                 ELSE [wk EXCEPT !.pc = "done", !.status = 0]
    /\ ListFrame

\* A stat failure that ends the request with nothing sent.
stat_failed_raises(w) == [w EXCEPT !.pc = "done", !.status = 0]

\* except Exception: continue
stat_failed(w) == [w EXCEPT !.i = @ + 1, !.skipped = @ \cup {w.names[w.i]}]

\* stat = fp.stat() for the name at hand
ListStat ==
    /\ wk.pc = "stat"
    /\ wk.i <= Len(wk.names)
    /\ wk' = IF StatOk(fs, Append(wk.target, wk.names[wk.i])) THEN [wk EXCEPT !.pc = "is_dir"]
             ELSE stat_failed(wk)
    /\ ListFrame

\* entries.append({... 'is_dir': fp.is_dir() ...}): is_dir of a child that is
\* gone by now is False.
ListIsDir ==
    /\ wk.pc = "is_dir"
    /\ LET name == wk.names[wk.i]
           fp == Append(wk.target, name)
       IN  wk' = [wk EXCEPT !.pc = "stat", !.i = @ + 1,
                            !.entries = Append(@, [name |-> name, path |-> VirtualOf(fp),
                                                   is_dir |-> StatOk(fs, fp)
                                                              /\ IsDir(fs, resolve(fs, fp))])]
    /\ ListFrame

\* self._set_json(200) and the body
ListRespond ==
    /\ wk.pc = "stat"
    /\ wk.i > Len(wk.names)
    /\ wk' = [wk EXCEPT !.pc = "done", !.status = 200]
    /\ ListFrame

\* Another thread handles a whole POST /api/delete.
ConcDelete ==
    /\ wk.pc # "done"
    /\ reqs < MaxConcDeletes
    /\ \E p \in ListDelPaths :
           /\ fs' = api_delete(fs, p).fs
           /\ pre' = fs
    /\ reqs' = reqs + 1
    /\ UNCHANGED <<auth, resp, written, wk, vq, vres>>

NextList ==
    \/ ListTranslate \/ ListCheck \/ ListDir \/ ListStat \/ ListIsDir \/ ListRespond
    \/ ConcDelete

SpecList == InitList /\ [][NextList]_vars

----------------------------------------------------------------------------
(* Claims about the handlers *)

\* The parts of Root are the leading parts of p, compared part by part.
HasRootSegments(p) ==
    /\ Len(p) >= Len(root_path)
    /\ \A i \in 1..Len(root_path) : p[i] = root_path[i]

Handled == resp.op # "none"
Authed == Handled /\ resp.status # 401

Mutations ==
    {"upload", "mkdir", "delete", "rename", "move", "move-multiple", "save",
     "permissions_post"}

\* The virtual paths the last request handed to translate_path_safe whatever
\* the tree: its path, both paths of a move, the target and the first source of
\* a move-multiple.
PathArgs ==
    CASE resp.op = "move" -> {resp.path, resp.arg2}
      [] resp.op = "move-multiple" ->
            {resp.arg2} \cup { resp.sources[i] : i \in DOMAIN resp.sources \cap {1} }
      [] OTHER -> {resp.path}

\* C1: every location the last request created, overwrote, removed, renamed
\* or relocated is Root or lies below Root.
C1_MutationsStayInRoot == \A q \in written : HasRootSegments(q)

\* The walk of v on tree f meets no symlink.
NoLinkOnWalk(f, v) ==
    LET parts == PartsOf(v)
    IN  \A i \in 1..Len(parts) :
            ~IsLink(f, Append(resolve(f, root_path \o SubSeq(parts, 1, i - 1)), parts[i]))

\* v holds enough ".." parts to leave Root: normalised as text, without looking
\* at the filesystem, Root joined with v is neither Root nor below Root.
EscapesByDotDot(v) == ~HasRootSegments(NormPath(<<>>, root_path \o PartsOf(v)))

\* C2: when a request names a virtual path that leaves Root by ".." parts
\* (written plainly or percent-encoded, with or without a leading slash),
\* translate_path_safe raises PermissionError and the handler passes no
\* location outside Root at or below the escaped location to a filesystem call.
C2_DotDotEscapeRefused ==
    \A v \in PathArgs :
        (Authed /\ EscapesByDotDot(v) /\ NoLinkOnWalk(pre, v))
        => /\ resp.perr
           /\ \A c \in resp.calls :
                  ~(IsPrefix(NormPath(<<>>, root_path \o PartsOf(v)), c) /\ ~HasRootSegments(c))

\* A delete of the percent-encoded escape %2e%2e/rx has been refused.
C2_Witness ==
    /\ resp.op = "delete"
    /\ resp.path = vEncRX
    /\ EscapesByDotDot(resp.path)
    /\ resp.perr
    /\ resp.status = 400
    /\ fs = pre

\* Every virtual path the client supplied with the last request.
AllPathArgs ==
    CASE resp.op = "move" -> {resp.path, resp.arg2}
      [] resp.op = "move-multiple" ->
            {resp.arg2} \cup { resp.sources[i] : i \in DOMAIN resp.sources }
      [] OTHER -> {resp.path}

\* Some path of the last request fails translate_path_safe.
ResolutionFails == \E v \in AllPathArgs : ~translate_path_safe(pre, v).ok

\* C5: a mutation one of whose paths fails translate_path_safe is answered
\* with forbidden or bad request and leaves the filesystem as it found it.
C5_FailedResolutionTouchesNothing ==
    (Authed /\ resp.op \in Mutations /\ ResolutionFails)
        => (resp.status \in {400, 403} /\ fs = pre)

\* A filename with every directory component stripped: what follows its last
\* slash.
StripDirs(s) == Last(SplitSlash(s, <<>>))

\* C6: every file an upload writes is the resolved destination directory's
\* child named by the part's filename with its directory components stripped.
C6_UploadWritesInsideDestination ==
    (Authed /\ resp.op = "upload" /\ translate_path_safe(pre, resp.path).ok)
        => \A q \in written :
               \E i \in DOMAIN resp.sources :
                   q = Append(translate_path_safe(pre, resp.path).path,
                              StripDirs(resp.sources[i].filename))

\* A name without a slash that is neither "." nor "..".
PlainName(n) == n # <<>> /\ PathParts(n) = <<n>> /\ n # DOTDOT

\* C9: a rename whose new name already exists in the directory of the renamed
\* entry is answered with an error and changes nothing.
C9_RenameOntoExistingFails ==
    LET t == translate_path_safe(pre, resp.path)
        dest == Append(Parent(t.path), resp.arg2)
    IN  (Authed /\ resp.op = "rename" /\ t.ok /\ Exists(pre, t.path)
            /\ PlainName(resp.arg2) /\ Exists(pre, dest) /\ dest # t.path)
        => (resp.status # 200 /\ fs = pre)

\* The virtual path of the directory a virtual path names its entry in.
VirtualParent(v) == JoinSlash(Front(PartsOf(v)))

ListedNames(f, v) ==
    LET l == api_list(f, v)
    IN  IF l.status = 200 THEN { l.body.files[i].name : i \in DOMAIN l.body.files } ELSE {}

\* C10: after a successful rename of p to the plain name n, the list of p's
\* parent directory holds n and not p's old name, and n is what p was.
C10_RenameShowsInParentList ==
    LET parts == PartsOf(resp.path)
        t == translate_path_safe(pre, resp.path)
        parent == translate_path_safe(fs, VirtualParent(resp.path))
    IN  (Authed /\ resp.op = "rename" /\ resp.status = 200 /\ parts # <<>>
            /\ PlainName(resp.arg2) /\ resp.arg2 # Last(parts))
        => /\ resp.arg2 \in ListedNames(fs, VirtualParent(resp.path))
           /\ Last(parts) \notin ListedNames(fs, VirtualParent(resp.path))
           /\ parent.ok
           /\ Exists(fs, Append(parent.path, resp.arg2))
           /\ fs[Append(parent.path, resp.arg2)] = pre[t.path]

\* The header carries the configured password as a Basic credential: the
\* password alone, or the password after the first colon.
ValidBasic(h) ==
    /\ h.scheme = "Basic"
    /\ \/ h.cred = auth
       \/ \E i \in DOMAIN h.cred :
              /\ h.cred[i] = ":"
              /\ \A j \in 1..(i - 1) : h.cred[j] # ":"
              /\ SubSeq(h.cred, i + 1, Len(h.cred)) = auth

\* C7: with a password configured, every request without a valid Basic
\* credential is answered 401, whatever was answered before, and reads and
\* writes nothing; every request with one reaches its handler.
C7_EveryRequestAuthenticated ==
    (auth # NoPassword /\ Handled)
        => IF ValidBasic(resp.header)
               THEN resp.status # 401
               ELSE /\ resp.status = 401
                    /\ resp.calls = {}
                    /\ written = {}
                    /\ fs = pre
                    /\ resp.body = ErrBody("unauthorized")

\* A request without a valid credential has been refused after an earlier
\* request of the run was authenticated and changed the tree.
C7_Witness ==
    /\ auth # NoPassword
    /\ reqs = MaxReqs
    /\ ~ValidBasic(resp.header)
    /\ resp.status = 401
    /\ fs # FS0

----------------------------------------------------------------------------
(* Claims about the resolver *)

Resolved == vres # Pending

\* C3 as stated: every virtual path whose walk passes through a symlink that
\* lies in Root and leads out of Root is refused with PermissionError.
C3_AnyPathThroughOutLinkRefused ==
    (Resolved /\ ThroughOutLink(fs, vq)) => vres.err = "PermissionError"

\* C3 amended: a virtual path whose walk passes through a symlink that lies in
\* Root and leads out of Root, and whose canonical location (all symlinks
\* followed, ".." applied to the followed path) is outside Root, is refused with
\* PermissionError, although the path normalised as text lies in Root.
C3_OutLinkRefusedWhenCanonicalOutside ==
    (Resolved /\ ThroughOutLink(fs, vq) /\ ~UnderRoot(Canon(fs, vq)))
        => vres.err = "PermissionError"

\* A path through the link l whose text looks contained has been refused.
C3_Witness ==
    /\ Resolved
    /\ ThroughOutLink(fs, vq)
    /\ UnderRoot(NormPath(<<>>, root_path \o PartsOf(vq)))
    /\ ~UnderRoot(Canon(fs, vq))
    /\ vres.err = "PermissionError"

\* C4: translate_path_safe accepts a virtual path exactly when the parts of
\* Root are the leading parts of its canonical location, and then returns that
\* location; a canonical location whose string only begins with Root's string
\* is refused with PermissionError.
C4_ContainmentBySegments ==
    Resolved =>
        /\ vres.ok <=> HasRootSegments(Canon(fs, vq))
        /\ vres.ok => vres.path = Canon(fs, vq)
        /\ ~vres.ok => vres.err = "PermissionError"

\* A location whose string begins with Root's string (/rx) has been refused.
C4_Witness ==
    /\ Resolved
    /\ StringPrefixOk(Canon(fs, vq), root_path)
    /\ ~HasRootSegments(Canon(fs, vq))
    /\ vres.err = "PermissionError"

----------------------------------------------------------------------------
(* Claims about concurrent deletes *)

BothDone == wk # <<>> /\ \A w \in Workers : wk[w].pc = "done"

\* C8: when both deletes of the same existing path have been answered, one
\* was answered with success and the other with not found (404), and the path
\* and everything below it is gone.
C8_OneSucceedsOtherNotFound ==
    BothDone =>
        /\ \E w \in Workers :
               /\ wk[w].status = 200
               /\ \A o \in Workers \ {w} : wk[o].status = 404
        /\ Subtree(fs, translate_path_safe(FS0, wk[1].path).path) = {}

----------------------------------------------------------------------------
(* More claims about the handlers *)

\* C11: after a successful rename, whatever 'new' was, the tree is the tree
\* before it with the renamed entry re-rooted at an immediate child of the
\* directory that held the entry before the call.
C11_RenameStaysInParent ==
    LET t == translate_path_safe(pre, resp.path)
        parent == Parent(t.path)
    IN  (Authed /\ resp.op = "rename" /\ resp.status = 200)
        => \E c \in DOMAIN fs :
               /\ Len(c) = Len(parent) + 1
               /\ IsPrefix(parent, c)
               /\ fs = MoveTree(pre, t.path, c)

\* C12: a delete of an existing file or directory inside Root is answered
\* with success; the entry and everything below it is gone, everything else is
\* as it was, and the lists of the directory that held it and of the directory
\* the request named it in hold no entry of its name.
C12_DeleteRemovesSubtree ==
    LET t == translate_path_safe(pre, resp.path)
    IN  (Authed /\ resp.op = "delete" /\ t.ok /\ Exists(pre, t.path))
        => /\ resp.status = 200
           /\ Subtree(fs, t.path) = {}
           /\ fs = Restrict(pre, DOMAIN pre \ Subtree(pre, t.path))
           /\ t.path # root_path
                  => /\ Last(t.path) \notin ListedNames(fs, VirtualOf(Parent(t.path)))
                     /\ api_list(fs, VirtualOf(Parent(t.path))).status = 200
           /\ (PartsOf(resp.path) # <<>> /\ t.path # root_path)
                  => Last(PartsOf(resp.path)) \notin ListedNames(fs, VirtualParent(resp.path))

\* The non-empty directory d has been deleted.
C12_Witness ==
    LET t == translate_path_safe(pre, resp.path)
    IN  /\ resp.op = "delete"
        /\ resp.path = vD
        /\ resp.status = 200
        /\ IsDir(pre, t.path)
        /\ \E q \in Subtree(pre, t.path) : Len(q) > Len(t.path)
        /\ Subtree(fs, t.path) = {}
        /\ vD \notin ListedNames(fs, vSlash)

\* C13: an edit read that directly follows a successful save of the same
\* path returns the saved content unchanged, carriage returns included.
C13_SaveThenEditRoundTrip ==
    [][(resp.op = "save" /\ resp.status = 200 /\ resp'.op = "edit" /\ resp'.path = resp.path
            /\ resp'.status # 401)
       => (resp'.status = 200 /\ resp'.body.data = resp.arg2)]_vars

\* C14: a mkdir under a parent that resolves inside Root fails and changes
\* nothing when the name already exists in the parent or the parent does not
\* exist; when it succeeds the tree is the tree before it with exactly one new,
\* empty directory, an immediate child of the resolved parent.
C14_MkdirOneLevelUnderParent ==
    LET t == translate_path_safe(pre, resp.path)
    IN  (Authed /\ resp.op = "mkdir" /\ t.ok)
        => /\ (PlainName(resp.arg2) /\ Exists(pre, Append(t.path, resp.arg2)))
                  => (resp.status = 400 /\ fs = pre)
           /\ ~Exists(pre, t.path) => (resp.status = 400 /\ fs = pre)
           /\ resp.status # 200 => fs = pre
           /\ resp.status = 200
                  => \E c \in DOMAIN fs :
                         /\ c \notin DOMAIN pre
                         /\ fs = (c :> Dir) @@ pre
                         /\ Parent(c) = t.path

\* C15: a request one of whose paths translate_path_safe refused with
\* PermissionError is answered 403.
C15_OutsideRootIsForbidden == (Authed /\ resp.perr) => resp.status = 403

\* The endpoints that act on an entry that must already be there, named by
\* the request's path (the source, for a move).
NeedsExisting ==
    {"list", "download", "preview", "edit", "permissions_get", "delete", "rename", "move",
     "permissions_post"}

\* C16: a request for a path that resolves inside Root to a location that does
\* not exist is answered 404 and leaves the filesystem as it was.
C16_MissingIsNotFound ==
    LET t == translate_path_safe(pre, resp.path)
    IN  (Authed /\ resp.op \in NeedsExisting /\ t.ok /\ ~Exists(pre, t.path))
        => (resp.status = 404 /\ fs = pre)

\* The absolute filesystem paths a response body spells out.
AbsolutePathsIn(body) ==
    CASE body.kind = "error" -> body.names
      [] body.kind = "list" -> {body.root}
      [] OTHER -> {}

\* C17: no response body spells out an absolute filesystem path.
C17_NoAbsolutePathInBody == Handled => AbsolutePathsIn(resp.body) = {}

\* C18: a JSON endpoint given a body that is not JSON, not a JSON object or
\* lacks a needed field answers 400 (a status of 0 is a handler that ended with
\* nothing sent).
C18_MalformedBodyIsBadRequest ==
    (Authed /\ resp.op = "malformed") => resp.status = 400

\* C19: a successful list of a directory returns one entry for each immediate
\* child whose stat succeeds and no other entry, in ascending order of the
\* names compared without regard to case, each with the path of the child
\* relative to Root.
C19_ListIsSortedChildren ==
    LET t == translate_path_safe(pre, resp.path)
        files == resp.body.files
        readable == { c \in Children(pre, t.path) : StatOk(pre, c) }
    IN  (Authed /\ resp.op = "list" /\ resp.status = 200)
        => /\ { Append(t.path, files[i].name) : i \in DOMAIN files } = readable
           /\ Len(files) = Cardinality(readable)
           /\ \A i, j \in DOMAIN files :
                  i < j => StrLeq(LowerStr(files[i].name), LowerStr(files[j].name))
           /\ \A i \in DOMAIN files :
                  /\ Head(files[i].path) = SLASH
                  /\ root_path \o PathParts(lstrip(files[i].path))
                         = Append(t.path, files[i].name)

\* The list of d has returned e before F, which sorts first by character code.
C19_Witness ==
    /\ resp.op = "list"
    /\ resp.status = 200
    /\ resp.path = vD
    /\ Len(resp.body.files) = 2
    /\ resp.body.files[1].name = nE
    /\ resp.body.files[2].name = nF
    /\ StrLeq(nF, nE)

----------------------------------------------------------------------------
(* Claims about a list with deletes running beside it *)

\* C20: a list request that has enumerated a directory with children is
\* answered 200 whatever is deleted while it stats them; a child whose stat
\* failed is left out, every child that is still there when the request ends is
\* returned, and the entries keep the sorted order.
C20_ListSkipsVanishedChild ==
    (wk.pc = "done" /\ wk.names # <<>>)
    => /\ wk.status = 200
       /\ Len(wk.entries) + Cardinality(wk.skipped) = Len(wk.names)
       /\ \A k \in DOMAIN wk.names :
              LET n == wk.names[k]
              IN  /\ StatOk(fs, Append(wk.target, n))
                         => \E i \in DOMAIN wk.entries : wk.entries[i].name = n
                  /\ n \in wk.skipped
                         => /\ \A i \in DOMAIN wk.entries : wk.entries[i].name # n
                            /\ ~StatOk(fs, Append(wk.target, n))
       /\ \A i, j \in DOMAIN wk.entries :
              i < j => StrLeq(LowerStr(wk.entries[i].name), LowerStr(wk.entries[j].name))

\* A list has been answered with some children although another child
\* vanished between the enumeration and its stat.
C20_Witness ==
    /\ wk.pc = "done"
    /\ wk.status = 200
    /\ wk.skipped # {}
    /\ wk.entries # <<>>
    /\ \E n \in wk.skipped : ~Exists(fs, Append(wk.target, n))

----------------------------------------------------------------------------
(* Claims about move-multiple, download and the frame of delete *)

\* The location a source of the last request named before the request.
SourceAt(i) == translate_path_safe(pre, resp.sources[i]).path

\* C21: when move-multiple answers ok, every source is gone from where it was
\* and is, with everything below it unchanged, at the target directory joined
\* with the source's base name.
C21_MoveMultipleKeepsBaseNames ==
    LET t == translate_path_safe(pre, resp.arg2)
    IN  (Authed /\ resp.op = "move-multiple" /\ resp.status = 200)
        => \A i \in DOMAIN resp.sources :
               LET src == SourceAt(i)
                   dest == Append(t.path, Basename(src))
               IN  /\ Exists(pre, src)
                   /\ ~Exists(fs, src)
                   /\ \A q \in Subtree(pre, src) :
                          LET to == dest \o SubSeq(q, Len(src) + 1, Len(q))
                          IN  Exists(fs, to) /\ fs[to] = pre[q]

\* The name an archive gives to path q below the downloaded directory.
ArcName(target, q) == JoinSlash(SubSeq(q, Len(target) + 1, Len(q)))

\* Entry e of an archive stands for path q: it is q itself or lies below it.
Covers(e, target, q) ==
    \/ e.arcname = ArcName(target, q)
    \/ IsPrefix(Append(ArcName(target, q), SLASH), e.arcname)

\* C22: the archive of a downloaded directory holds every file below it under
\* its relative name with its content, shows every directory below it (empty
\* ones included), and holds nothing that is stored outside the directory.
C22_ZipMatchesTree ==
    LET t == translate_path_safe(pre, resp.path)
        below == Subtree(pre, t.path) \ {t.path}
    IN  (Authed /\ resp.op = "download" /\ resp.status = 200 /\ resp.body.kind = "zip")
        => /\ \A q \in below :
                  pre[q].kind = "file"
                  => [arcname |-> ArcName(t.path, q), data |-> pre[q].data] \in resp.body.entries
           /\ \A q \in below :
                  pre[q].kind = "dir" => \E e \in resp.body.entries : Covers(e, t.path, q)
           /\ \A e \in resp.body.entries :
                  \E q \in below : /\ pre[q].kind = "file"
                                   /\ e.arcname = ArcName(t.path, q)
                                   /\ e.data = pre[q].data

\* C23: the resolver maps the empty string to Root and gives the same result
\* for a virtual path, the path with "/" put in front and the path with "/"
\* put behind.
C23_SlashInsensitive ==
    vres # Pending
    => /\ translate_path_safe(fs, <<>>) = Ok(root_path)
       /\ translate_path_safe(fs, <<SLASH>> \o vq) = vres
       /\ translate_path_safe(fs, Append(vq, SLASH)) = vres

\* a path without a slash at either end was resolved to an entry below Root
C23_Witness ==
    /\ vres # Pending
    /\ vq # <<>> /\ Head(vq) # SLASH /\ Last(vq) # SLASH
    /\ vres.ok /\ vres.path # root_path

\* The control characters the model tells apart.
ControlChars == {NUL, CR, LF}

\* The percent-decoded form of virtual path v holds a control character.
HasControl(v) == \E i \in DOMAIN unquote(v) : unquote(v)[i] \in ControlChars

\* C24: a request one of whose virtual paths decodes to a string with a null
\* byte or another control character is answered with a client error, and no
\* filesystem call is made on any path for it.
C24_ControlCharactersRejected ==
    (Authed /\ \E v \in AllPathArgs : HasControl(v))
        => (resp.status \in 400..499 /\ resp.calls = {} /\ fs = pre)

\* C25: after any sequence of requests the Root directory is still there, at
\* the location it had when the server started.
C25_RootStays == Exists(fs, root_path) /\ fs[root_path].kind = "dir"

\* C26: a list that runs while other requests delete entries, the listed
\* directory included, ends with a response: 200, 404 or 403.
C26_ListAlwaysResponds == wk.pc = "done" => wk.status \in {200, 403, 404}

----------------------------------------------------------------------------
(* Two worker threads that write the same file, each an upload or a save.    *)
(* A step is one system call on the file: the open, or one write.  A unit of *)
(* content stands for one chunk of 8192 bytes.                               *)

\* Largest payload, in chunks.
MaxChunks == 2

WriteKinds == {"upload", "save"}

\* The chunk each writer's payload is made of.
Marks == <<"U", "x">>

Payload(w, n) == [ i \in 1..n |-> Marks[w] ]

\* A writer: where it is, upload or save, its payload, the file it opened, the
\* position of its file descriptor, the status sent.
Writer(kind, payload) ==
    [pc |-> "open", kind |-> kind, payload |-> payload, target |-> <<>>, off |-> 0,
     status |-> 0]

\* The file a writer opens: the upload's path field is "/" and its filename
\* "a", the save's path is "a".
Dest(f, kind) ==
    IF kind = "upload"
        THEN translate_path_safe(f, vSlash).path \o PathParts(safe_name(vA))
        ELSE translate_path_safe(f, vA).path

InitWrite ==
    /\ fs = FS0
    /\ pre = FS0
    /\ resp = NoResp
    /\ written = {}
    /\ reqs = 0
    /\ auth = NoPassword
    /\ vq = <<>>
    /\ vres = Pending
    /\ \E k \in [Workers -> WriteKinds], n \in [Workers -> 1..MaxChunks] :
           wk = [ w \in Workers |-> Writer(k[w], Payload(w, n[w])) ]

\* write(2) of cells at position off of a file: what lies under them is
\* replaced, what lies beyond stays, a gap before them reads as null bytes.
pwrite(data, off, cells) ==
    LET n == IF Len(data) > off + Len(cells) THEN Len(data) ELSE off + Len(cells)
    IN  [ i \in 1..n |-> IF i > off /\ i <= off + Len(cells) THEN cells[i - off]
                         ELSE IF i <= Len(data) THEN data[i]
                         ELSE NUL ]

\* open(dest, 'wb') / open(target, 'w'): the file is created or cut to length
\* zero, the descriptor starts at position 0.
WOpen(w) ==
    /\ wk[w].pc = "open"
    /\ LET r == open_write(fs, Dest(fs, wk[w].kind), <<>>, MaxLinkHops)
       IN  /\ fs' = r.fs
           /\ wk' = IF r.ok THEN [wk EXCEPT ![w].pc = "write", ![w].target = r.at]
                    ELSE [wk EXCEPT ![w].pc = "done", ![w].status = 400]
    /\ ConcFrame

\* out.write(chunk) of the upload's loop, one chunk a call; f.write(content) of
\* save, the whole content in one call.  Each lands at the writer's own
\* position.
WWrite(w) ==
    /\ wk[w].pc = "write"
    /\ wk[w].off < Len(wk[w].payload)
    /\ LET cells == IF wk[w].kind = "upload" THEN <<wk[w].payload[wk[w].off + 1]>>
                    ELSE write_newlines(wk[w].payload)
       IN  /\ fs' = [fs EXCEPT ![wk[w].target].data = pwrite(@, wk[w].off, cells)]
           /\ wk' = [wk EXCEPT ![w].off = @ + Len(cells)]
    /\ ConcFrame

\* The file is closed and the success response sent.
WClose(w) ==
    /\ wk[w].pc = "write"
    /\ wk[w].off = Len(wk[w].payload)
    /\ wk' = [wk EXCEPT ![w].pc = "done", ![w].status = 200]
    /\ UNCHANGED fs
    /\ ConcFrame

NextWrite == \E w \in Workers : WOpen(w) \/ WWrite(w) \/ WClose(w)

SpecWrite == InitWrite /\ [][NextWrite]_vars

\* C27: when two concurrent writers of the same file have both reported
\* success, the file holds the whole payload of one of them and nothing else.
C27_LastWriterWins ==
    (BothDone /\ \A w \in Workers : wk[w].status = 200)
        => fs[Dest(FS0, "save")].data \in { wk[w].payload : w \in Workers }

\* C28: every entry of a list leads back to what it describes: its 'path',
\* handed to translate_path_safe, resolves to the entry's file or directory.
C28_ListPathRoundTrip ==
    LET t == translate_path_safe(pre, resp.path)
    IN  (Authed /\ resp.op = "list" /\ resp.status = 200)
        => \A i \in DOMAIN resp.body.files :
               LET e == resp.body.files[i]
               IN  translate_path_safe(fs, e.path) = Ok(resolve(fs, Append(t.path, e.name)))

\* The place in the tree that virtual path v names, links not followed.
NamedBy(v) == NormPath(<<>>, root_path \o PartsOf(v))

\* C29: a successful delete of p leaves every entry of Root that is neither
\* the one p names nor below it where it was, with the same content.
C29_DeleteFrame ==
    (Authed /\ resp.op = "delete" /\ resp.status = 200)
        => \A q \in DOMAIN pre :
               (UnderRoot(q) /\ ~IsPrefix(NamedBy(resp.path), q))
                   => (Exists(fs, q) /\ fs[q] = pre[q])

\* Source i of the last request has left its place and is, as it was, in the
\* target directory under its base name.
MovedIn(i) ==
    LET s == translate_path_safe(pre, resp.sources[i])
        t == translate_path_safe(pre, resp.arg2)
    IN  /\ s.ok
        /\ Exists(pre, s.path) /\ ~Exists(fs, s.path)
        /\ \E dest \in DOMAIN fs :
               /\ IsPrefix(t.path, dest) /\ dest # t.path
               /\ Last(dest) = Basename(s.path)
               /\ fs[dest] = pre[s.path]

\* Source i of the last request is where and what it was before the request.
Untouched(i) ==
    LET s == translate_path_safe(pre, resp.sources[i])
    IN  s.ok => \A q \in Subtree(pre, s.path) : Exists(fs, q) /\ fs[q] = pre[q]

\* The move-multiple answered with an error after its target was resolved: one
\* of its sources caused the error.
SourceFailed ==
    /\ Authed /\ resp.op = "move-multiple" /\ resp.status = 400
    /\ translate_path_safe(pre, resp.arg2).ok

\* The sources before the k-th are moved into the target directory, the k-th
\* and all after it are untouched.
StoppedAt(k) ==
    /\ \A i \in 1..(k - 1) : MovedIn(i)
    /\ \A i \in k..Len(resp.sources) : Untouched(i)

\* No source of the last request names the entry another source names, or an
\* entry below it.
SourcesApart ==
    \A i, j \in DOMAIN resp.sources :
        LET a == translate_path_safe(pre, resp.sources[i])
            b == translate_path_safe(pre, resp.sources[j])
        IN  (i # j /\ a.ok /\ b.ok) => ~IsPrefix(a.path, b.path)

====
